---- MODULE Spec2Model ----
(***************************************************************************)
(* A model of ctypes_export (src/__init__.py): the dependency classifier   *)
(* get_type_deps, the graph construction of export_types, the resolver     *)
(* get_order with update_deps, and the struct layout of get_struct_items   *)
(* with struct_padding.                                                    *)
(***************************************************************************)
EXTENDS Integers, Sequences, FiniteSets, TLC

\* ------------------------------------------------------------------ bounds

\* type names are 1..NumNames; a dict's key order is a sequence of names
NumNames == 2
\* at most this many dependency edges (strong and weak together) in an input graph
MaxEdges == 3
\* the same for the graphs of FairSpec, whose liveness check costs more per state
MaxEdgesFair == 2
\* get_type_deps: a type tree has at most MaxNodes nodes
MaxNodes == 3
\* export_types: at most MaxRequested type names are requested, and the types of
\* the database have at most MaxDbEdges named children together
MaxRequested == 1
MaxDbEdges == 2

\* get_struct_items: the declared width of the struct is at most MaxWidth, it has at
\* most MaxMembers members, each at an offset <= MaxOffset with a type width <= MaxMemberWidth
MaxWidth == 20
MaxMembers == 2
MaxOffset == 18
MaxMemberWidth == 8

\* field names: a struct or union has at most MaxFields members, at offsets and
\* of widths 0 or FieldStep
MaxFields == 2
FieldStep == 4

\* definitions: a type tree of the emitter has at most MaxEmitNodes nodes
MaxEmitNodes == 3

Names == 1..NumNames

None == 0

\* ------------------------------------------------------------------ state

VARIABLES
    pc,              \* position in get_order: "build", "loop", "returned", "raised", "keyerror"
    types,           \* types[tname]: TRUE iff type(types[tname]) == StructureType
    keys,            \* insertion order of the keys of strong_deps (all four dicts share it)
    strong_deps,     \* dict tname -> set of names
    weak_deps,       \* dict tname -> set of names
    rev_strong_deps, \* dict tname -> set of names (empty dict before it is built)
    rev_weak_deps,   \* dict tname -> set of names (empty dict before it is built)
    predefd,         \* list of forward declared names
    order,           \* list of <<tname, DefType>>
    in_strong,       \* the strong_deps argument as passed to get_order
    in_weak          \* the weak_deps argument as passed to get_order

orderVars == <<pc, types, keys, strong_deps, weak_deps, rev_strong_deps,
               rev_weak_deps, predefd, order, in_strong, in_weak>>

VARIABLES
    ppc,             \* position in get_struct_items: "members", "tail", "done"
    tobj_width,      \* tobj.width, the declared width of the struct
    offset,          \* the running byte cursor of get_struct_items
    nmembers,        \* the number of members the for loop has gone through
    emitted,         \* the number of members emitted as fields
    skipped,         \* the number of members skipped at line 260
    npads,           \* the number of padding entries emitted
    covered,         \* the bytes inside the ranges of the emitted entries
    overlap,         \* TRUE iff two emitted entries share a byte
    members_end      \* the cursor after the last member, when the for loop ended

padVars == <<ppc, tobj_width, offset, nmembers, emitted, skipped, npads, covered,
             overlap, members_end>>

VARIABLES
    dpc,             \* position in get_type_deps: "call", "returned"
    tobj,            \* the type tree passed to get_type_deps
    ret              \* the pair (strong_deps, weak_deps) it returned

depVars == <<dpc, tobj, ret>>

VARIABLES
    epc,             \* position in export_types: "build", "built", "keyerror", "cancelled",
                     \* "order" (in get_order), "emit", "done"
    db,              \* gt: the type tree of each name, or Missing where gt returns None
    do_recurse,      \* "Include Dependant Types" is Yes
    typenames,       \* the list of names to export; grows while it is iterated
    tidx,            \* the index in typenames the for loop of line 779 is at
    e_types,         \* the keys of the dict types, in insertion order
    e_strong,        \* the dict strong_deps of export_types
    e_weak,          \* the dict weak_deps of export_types
    requested,       \* typenames as it was when export_types started
    filename,        \* the "Output File" field of the form
    report,          \* the entries of types_order emitted into report so far
    sink,            \* what was shown or written: NoSink, or the place and the report
    prog_ok          \* the last value report_prog returned (TRUE before its first call)

expVars == <<epc, db, do_recurse, typenames, tidx, e_types, e_strong, e_weak, requested,
             filename, report, sink, prog_ok>>

VARIABLES
    fpc,             \* position in get_struct_items / get_union_items: "call", "done"
    is_union,        \* tobj.type == StructureVariant.UnionStructureType
    width,           \* tobj.width
    members,         \* tobj.members: the name, the offset and the type width of each
    items            \* the field names of the lines of items, in order

fieldVars == <<fpc, is_union, width, members, items>>

VARIABLES
    wpc,             \* position in the emission of the entries of one name: "emit", "done"
    typeobj,         \* types[tname], the type tree that is written
    linekinds,       \* the linekinds of the entries of tname still to come
    declared,        \* the names declared so far
    out              \* the definitions written into report, in order

emitVars == <<wpc, typeobj, linekinds, declared, out>>

vars == <<orderVars, padVars, depVars, expVars, fieldVars, emitVars>>

notOrder == <<padVars, depVars, expVars, fieldVars, emitVars>>
notPad == <<orderVars, depVars, expVars, fieldVars, emitVars>>
notDep == <<orderVars, padVars, expVars, fieldVars, emitVars>>
notExp == <<orderVars, padVars, depVars, fieldVars, emitVars>>
notField == <<orderVars, padVars, depVars, expVars, emitVars>>
notEmit == <<orderVars, padVars, depVars, expVars, fieldVars>>

\* class DefType
FULL == "FULL"
FWD_STRUCT == "FWD_STRUCT"
FWD_OTHER == "FWD_OTHER"
PART == "PART"

\* ------------------------------------------------------------------ helpers

Range(s) == {s[i] : i \in 1..Len(s)}

RECURSIVE SubsetsUpTo(_, _)
SubsetsUpTo(S, k) ==
    IF k = 0 THEN {{}}
    ELSE LET prev == SubsetsUpTo(S, k - 1)
         IN  prev \cup {s \cup {e} : s \in prev, e \in S}

\* an edge <<kind, a, b>>: a depends on b, strongly ("s") or weakly ("w")
Edges == {"s", "w"} \X Names \X Names

Graphs == SubsetsUpTo(Edges, MaxEdges)

\* the value of gt(tname) where the type is not found
Missing == <<>>

DepsOf(E, kind) == [a \in Names |-> {b \in Names : <<kind, a, b>> \in E}]

\* the sequence s without its element x
RECURSIVE SeqWithout(_, _)
SeqWithout(s, x) ==
    IF s = <<>> THEN <<>>
    ELSE IF Head(s) = x THEN SeqWithout(Tail(s), x)
    ELSE <<Head(s)>> \o SeqWithout(Tail(s), x)

\* del d[k]
DictDel(d, k) == [x \in (DOMAIN d) \ {k} |-> d[x]]

\* ------------------------------------------------------------------ update_deps

\* some dict index or set.remove of update_deps raises KeyError
update_deps_fails(tname, full_def, sd, wd, rsd, rwd) ==
    \/ tname \notin DOMAIN rwd
    \/ \E o \in rwd[tname] : o \notin DOMAIN wd \/ tname \notin wd[o]
    \/ /\ full_def
       /\ \/ tname \notin DOMAIN wd \/ tname \notin DOMAIN rsd \/ tname \notin DOMAIN sd
          \/ \E o \in wd[tname] \ {tname} : o \notin DOMAIN rwd \/ tname \notin rwd[o]
          \/ \E o \in rsd[tname] : o \notin DOMAIN sd \/ tname \notin sd[o]
          \/ \E o \in sd[tname] \ {tname} : o \notin DOMAIN rsd \/ tname \notin rsd[o]

\* update_deps without lines 523-526: a declaration leaves the weak edges in place
update_deps_keeps_weak(tname, full_def, sd, wd, rsd, rwd) ==
    LET rsdlist == rsd[tname]
        sd2  == [o \in DOMAIN sd |-> IF o \in rsdlist THEN sd[o] \ {tname} ELSE sd[o]]
        wd2  == [o \in DOMAIN wd |-> wd[o] \ {tname}]
    IN  IF full_def
        THEN [sd |-> DictDel(sd2, tname), wd |-> DictDel(wd2, tname),
              rsd |-> DictDel([o \in DOMAIN rsd |-> rsd[o] \ {tname}], tname),
              rwd |-> DictDel([o \in DOMAIN rwd |-> rwd[o] \ {tname}], tname)]
        ELSE [sd |-> sd, wd |-> wd, rsd |-> rsd, rwd |-> rwd]

\* update_deps without lines 535-537: a definition stays a strong dependency of others
update_deps_keeps_strong(tname, full_def, sd, wd, rsd, rwd) ==
    LET rwdlist == rwd[tname]
        wd1  == [o \in DOMAIN wd |-> IF o \in rwdlist THEN wd[o] \ {tname} ELSE wd[o]]
        rwd1 == [rwd EXCEPT ![tname] = {}]
    IN  IF full_def
        THEN [sd |-> DictDel(sd, tname), wd |-> DictDel(wd1, tname),
              rsd |-> DictDel([o \in DOMAIN rsd |-> rsd[o] \ {tname}], tname),
              rwd |-> DictDel([o \in DOMAIN rwd1 |-> rwd1[o] \ {tname}], tname)]
        ELSE [sd |-> sd, wd |-> wd1, rsd |-> rsd, rwd |-> rwd1]

\* update_deps without line 526: rev_weak_deps[tname] keeps the names it held
update_deps_keeps_rev_weak(tname, full_def, sd, wd, rsd, rwd) ==
    LET rwdlist == rwd[tname]
        wd1  == [o \in DOMAIN wd |-> IF o \in rwdlist THEN wd[o] \ {tname} ELSE wd[o]]
        wdlist == wd1[tname]
        rwd2 == [o \in DOMAIN rwd |-> IF o \in wdlist THEN rwd[o] \ {tname} ELSE rwd[o]]
        rsdlist == rsd[tname]
        sd2  == [o \in DOMAIN sd |-> IF o \in rsdlist THEN sd[o] \ {tname} ELSE sd[o]]
        sdlist == sd2[tname]
        rsd2 == [o \in DOMAIN rsd |-> IF o \in sdlist THEN rsd[o] \ {tname} ELSE rsd[o]]
    IN  IF full_def
        THEN [sd |-> DictDel(sd2, tname), wd |-> DictDel(wd1, tname),
              rsd |-> DictDel(rsd2, tname), rwd |-> DictDel(rwd2, tname)]
        ELSE [sd |-> sd, wd |-> wd1, rsd |-> rsd, rwd |-> rwd]

\* the four dicts after update_deps(tname, full_def, ...)
update_deps(tname, full_def, sd, wd, rsd, rwd) ==
    LET rwdlist == rwd[tname]
        wd1  == [o \in DOMAIN wd |-> IF o \in rwdlist THEN wd[o] \ {tname} ELSE wd[o]]
        rwd1 == [rwd EXCEPT ![tname] = {}]
        wdlist == wd1[tname]
        rwd2 == [o \in DOMAIN rwd1 |-> IF o \in wdlist THEN rwd1[o] \ {tname} ELSE rwd1[o]]
        rsdlist == rsd[tname]
        sd2  == [o \in DOMAIN sd |-> IF o \in rsdlist THEN sd[o] \ {tname} ELSE sd[o]]
        sdlist == sd2[tname]
        rsd2 == [o \in DOMAIN rsd |-> IF o \in sdlist THEN rsd[o] \ {tname} ELSE rsd[o]]
    IN  IF full_def
        THEN [sd |-> DictDel(sd2, tname), wd |-> DictDel(wd1, tname),
              rsd |-> DictDel(rsd2, tname), rwd |-> DictDel(rwd2, tname)]
        ELSE [sd |-> sd, wd |-> wd1, rsd |-> rsd, rwd |-> rwd1]

\* ------------------------------------------------------------------ get_order

\* lines 554-564: the reverse maps of a graph
RevOf(deps) == [b \in DOMAIN deps |-> {a \in DOMAIN deps : b \in deps[a]}]

\* line 584 counting the weak dependencies only
NoDeps_weak_only(tname) == Cardinality(weak_deps[tname]) = 0

\* line 584 with sd_count alone: weak dependencies are not waited for
NoDeps_strong_only(tname) == Cardinality(strong_deps[tname]) = 0

\* line 584: no remaining dependencies
NoDeps(tname) == Cardinality(strong_deps[tname]) + Cardinality(weak_deps[tname]) = 0

\* line 594: the only remaining dependency is a weak one on itself
OnlySelfDep(tname) ==
    /\ Cardinality(strong_deps[tname]) = 0
    /\ Cardinality(weak_deps[tname]) = 1
    /\ tname \in weak_deps[tname]

\* lines 627-632: the smallest weak dependency count among the names that weakly
\* depend on tname (0 when there is none), folded in one iteration order of the set
RECURSIVE ReadyFold(_, _)
ReadyFold(others, ready_amt) ==
    IF others = {} THEN ready_amt
    ELSE LET other == CHOOSE o \in others : TRUE
             o_ready_amt == Cardinality(weak_deps[other])
         IN  ReadyFold(others \ {other},
                       IF ready_amt = 0 \/ o_ready_amt < ready_amt
                       THEN o_ready_amt ELSE ready_amt)

\* line 634
Score(tname) ==
    <<types[tname],
      ReadyFold(rev_weak_deps[tname], 0),
      Cardinality(rev_weak_deps[tname]),
      Cardinality(strong_deps[tname]),
      Cardinality(rev_strong_deps[tname]),
      Cardinality(weak_deps[tname])>>

\* lines 641-690: TRUE iff score replaces best_score
Replaces(best_score, score) ==
    IF best_score[1] /\ ~score[1] THEN FALSE
    ELSE IF score[1] /\ ~best_score[1] THEN TRUE
    ELSE IF best_score[2] # 0 /\ (score[2] = 0 \/ score[2] > best_score[2]) THEN FALSE
    ELSE IF score[2] # 0 /\ (best_score[2] = 0 \/ best_score[2] > score[2]) THEN TRUE
    ELSE IF best_score[3] > score[3] THEN FALSE
    ELSE IF score[3] > best_score[3] THEN TRUE
    ELSE IF best_score[4] < score[4] THEN FALSE
    ELSE IF score[4] < best_score[4] THEN TRUE
    ELSE IF best_score[5] < score[5] THEN FALSE
    ELSE IF score[5] < best_score[5] THEN TRUE
    ELSE IF best_score[6] < score[6] THEN FALSE
    ELSE IF score[6] < best_score[6] THEN TRUE
    ELSE FALSE

\* lines 624-625 left out: a forward declared name stays a candidate
Candidate_any(tname) == TRUE

\* line 624: already forward declared names are no candidates
Candidate(tname) == tname \notin Range(predefd)

\* lines 575-690 when no name breaks the loop: best, or None
RECURSIVE ScanBest(_, _)
ScanBest(i, best) ==
    IF i > Len(keys) THEN best
    ELSE LET tname == keys[i]
         IN  IF ~Candidate(tname) THEN ScanBest(i + 1, best)
             ELSE IF best = None THEN ScanBest(i + 1, tname)
             ELSE IF Replaces(Score(best), Score(tname)) THEN ScanBest(i + 1, tname)
             ELSE ScanBest(i + 1, best)

\* lines 586-587 left out
DefKind_always_full(tname) == FULL

\* lines 585-587: PART completes a forward declaration, FULL defines at once
DefKind(tname) == IF tname \in Range(predefd) THEN PART ELSE FULL

\* lines 597-599 and 704-706: the forward declaration of a structure or of another type
FwdKind(is_structunion) == IF is_structunion THEN FWD_STRUCT ELSE FWD_OTHER

\* lines 584-592 left out: only a name with one self dep breaks the loop
Breaks_self_only(tname) == OnlySelfDep(tname)

\* the first name, in dict order, at which the for loop breaks (None: none)
Breaks(tname) == NoDeps(tname) \/ OnlySelfDep(tname)

Found ==
    IF \E i \in 1..Len(keys) : Breaks(keys[i])
    THEN keys[CHOOSE i \in 1..Len(keys) :
                /\ Breaks(keys[i])
                /\ \A j \in 1..(i - 1) : ~Breaks(keys[j])]
    ELSE None

\* the effect of update_deps on the state; a KeyError ends get_order
ApplyUpdate(tname, full_def, next_pc) ==
    IF update_deps_fails(tname, full_def, strong_deps, weak_deps,
                         rev_strong_deps, rev_weak_deps)
    THEN /\ pc' = "keyerror"
         /\ UNCHANGED <<keys, strong_deps, weak_deps, rev_strong_deps, rev_weak_deps>>
    ELSE LET u == update_deps(tname, full_def, strong_deps, weak_deps,
                              rev_strong_deps, rev_weak_deps)
         IN  /\ pc' = next_pc
             /\ strong_deps' = u.sd
             /\ weak_deps' = u.wd
             /\ rev_strong_deps' = u.rsd
             /\ rev_weak_deps' = u.rwd
             /\ keys' = IF full_def THEN SeqWithout(keys, tname) ELSE keys

\* no get_struct_items call is under way
PadIdle ==
    /\ ppc = "idle"
    /\ tobj_width = 0
    /\ offset = 0
    /\ nmembers = 0
    /\ emitted = 0
    /\ skipped = 0
    /\ npads = 0
    /\ covered = {}
    /\ overlap = FALSE
    /\ members_end = 0

\* no get_type_deps call is under way
DepIdle ==
    /\ dpc = "idle"
    /\ tobj = <<>>
    /\ ret = <<>>

\* nothing was shown and no file was written
NoSink == [to |-> "", text |-> <<>>]

\* no definition is being written
EmitIdle ==
    /\ wpc = "idle"
    /\ typeobj = <<>>
    /\ linekinds = <<>>
    /\ declared = {}
    /\ out = <<>>

\* no field list is being written
FieldIdle ==
    /\ fpc = "idle"
    /\ is_union = FALSE
    /\ width = 0
    /\ members = <<>>
    /\ items = <<>>

\* no export_types call is under way
ExpIdle ==
    /\ epc = "idle"
    /\ db = <<>>
    /\ do_recurse = FALSE
    /\ typenames = <<>>
    /\ tidx = 0
    /\ e_types = <<>>
    /\ e_strong = <<>>
    /\ e_weak = <<>>
    /\ requested = <<>>
    /\ filename = ""
    /\ report = <<>>
    /\ sink = NoSink
    /\ prog_ok = TRUE

\* no get_order call is under way
OrderIdle ==
    /\ pc = "idle"
    /\ types = <<>>
    /\ keys = <<>>
    /\ strong_deps = <<>>
    /\ weak_deps = <<>>
    /\ rev_strong_deps = <<>>
    /\ rev_weak_deps = <<>>
    /\ predefd = <<>>
    /\ order = <<>>
    /\ in_strong = <<>>
    /\ in_weak = <<>>

\* lines 554-568
BuildRev ==
    /\ pc = "build"
    /\ pc' = "loop"
    /\ rev_strong_deps' = RevOf(strong_deps)
    /\ rev_weak_deps' = RevOf(weak_deps)
    /\ UNCHANGED <<types, keys, strong_deps, weak_deps, predefd, order, in_strong, in_weak>>
    /\ UNCHANGED notOrder

\* lines 584-592: one iteration of the while loop that defines a name
ResolveFull ==
    /\ pc = "loop"
    /\ Found # None
    /\ NoDeps(Found)
    /\ order' = Append(order, <<Found, DefKind(Found)>>)
    /\ ApplyUpdate(Found, TRUE, "loop")
    /\ UNCHANGED <<types, predefd, in_strong, in_weak>>
    /\ UNCHANGED notOrder

\* lines 594-606: one iteration that declares and defines a name with one self dep
SelfCycle ==
    /\ pc = "loop"
    /\ Found # None
    /\ ~NoDeps(Found)
    /\ order' = order \o <<<<Found, FwdKind(types[Found])>>, <<Found, PART>>>>
    /\ ApplyUpdate(Found, TRUE, "loop")
    /\ UNCHANGED <<types, predefd, in_strong, in_weak>>
    /\ UNCHANGED notOrder

\* lines 695-710: one iteration that forward declares best
ForwardDeclare ==
    /\ pc = "loop"
    /\ Len(keys) > 0
    /\ Found = None
    /\ LET best == ScanBest(1, None)
       IN  /\ best # None
           /\ order' = Append(order, <<best, FwdKind(Score(best)[1])>>)
           /\ predefd' = Append(predefd, best)
           /\ ApplyUpdate(best, FALSE, "loop")
    /\ UNCHANGED <<types, in_strong, in_weak>>
    /\ UNCHANGED notOrder

\* lines 697-702: raise RuntimeError("Strong Circular Dependency?")
RaiseStrongCycle ==
    /\ pc = "loop"
    /\ Len(keys) > 0
    /\ Found = None
    /\ ScanBest(1, None) = None
    /\ pc' = "raised"
    /\ UNCHANGED <<types, keys, strong_deps, weak_deps, rev_strong_deps, rev_weak_deps,
                   predefd, order, in_strong, in_weak>>
    /\ UNCHANGED notOrder

\* lines 569, 712: the graph is empty, return order
Return ==
    /\ pc = "loop"
    /\ Len(keys) = 0
    /\ pc' = "returned"
    /\ UNCHANGED <<types, keys, strong_deps, weak_deps, rev_strong_deps, rev_weak_deps,
                   predefd, order, in_strong, in_weak>>
    /\ UNCHANGED notOrder

\* get_order(types, strong_deps, weak_deps) on a closed graph of G over Names, the
\* keys in the order 1..NumNames
InitOrder(G) ==
    \E E \in G, st \in [Names -> BOOLEAN] :
        /\ pc = "build"
        /\ types = st
        /\ keys = [i \in Names |-> i]
        /\ strong_deps = DepsOf(E, "s")
        /\ weak_deps = DepsOf(E, "w")
        /\ rev_strong_deps = <<>>
        /\ rev_weak_deps = <<>>
        /\ predefd = <<>>
        /\ order = <<>>
        /\ in_strong = DepsOf(E, "s")
        /\ in_weak = DepsOf(E, "w")
        /\ PadIdle
        /\ DepIdle
        /\ ExpIdle
        /\ FieldIdle
        /\ EmitIdle

Init == InitOrder(Graphs)

InitFair == InitOrder(SubsetsUpTo(Edges, MaxEdgesFair))

Next ==
    \/ BuildRev
    \/ ResolveFull
    \/ SelfCycle
    \/ ForwardDeclare
    \/ RaiseStrongCycle
    \/ Return

Spec == Init /\ [][Next]_vars

\* the same get_order, its while loop running as long as it can
FairSpec == InitFair /\ [][Next]_vars /\ WF_vars(Next)

\* ------------------------------------------------------------------ get_struct_items

\* the bytes of the range [start, start + size)
Bytes(start, size) == start..(start + size - 1)

\* lines 228-243 with the test of allsz < 4 left out
pad_size_unchecked(off, end) ==
    LET allsz == end - off
    IN  IF off % 4 # 0 THEN 1
        ELSE IF allsz < 8 \/ off % 8 # 0 THEN 4
        ELSE IF allsz < 16 THEN 8
        ELSE (allsz \div 16) * 16

\* lines 228-243: the size of the next padding entry of the gap [off, end)
pad_size(off, end) ==
    LET allsz == end - off
    IN  IF allsz < 4 \/ off % 4 # 0 THEN 1
        ELSE IF allsz < 8 \/ off % 8 # 0 THEN 4
        ELSE IF allsz < 16 THEN 8
        ELSE (allsz \div 16) * 16

\* lines 216-248: the padding entries <<offset, size>> struct_padding(off, size)
\* writes, in order
RECURSIVE padding_loop(_, _)
padding_loop(off, end) ==
    IF off < end
    THEN <<<<off, pad_size(off, end)>>>> \o padding_loop(off + pad_size(off, end), end)
    ELSE <<>>

struct_padding(off, size) == padding_loop(off, off + size)

\* lines 261-265 and 272-276: the entries written for the gap from the cursor to upto
GapPads(upto) == IF offset < upto THEN struct_padding(offset, upto - offset) ELSE <<>>

PadBytes(pads) == UNION {Bytes(pads[k][1], pads[k][2]) : k \in 1..Len(pads)}

\* two of the entries pads and the range [mstart, mstart + msize) share a byte, or
\* one of them shares a byte with an entry written before
Overlaps(pads, mstart, msize) ==
    \/ \E k \in 1..Len(pads) :
          \/ Bytes(pads[k][1], pads[k][2]) \cap covered # {}
          \/ Bytes(pads[k][1], pads[k][2]) \cap Bytes(mstart, msize) # {}
          \/ \E l \in 1..Len(pads) :
                l # k /\ Bytes(pads[k][1], pads[k][2]) \cap Bytes(pads[l][1], pads[l][2]) # {}
    \/ Bytes(mstart, msize) \cap covered # {}

Members == [offset : 0..MaxOffset, width : 0..MaxMemberWidth]

\* lines 256-260: the cursor is past the member's offset, the member is skipped
SkipMember ==
    /\ ppc = "members"
    /\ nmembers < MaxMembers
    /\ \E m \in Members :
          /\ offset > m.offset
          /\ nmembers' = nmembers + 1
          /\ skipped' = skipped + 1
    /\ UNCHANGED <<ppc, tobj_width, offset, emitted, npads, covered, overlap, members_end>>
    /\ UNCHANGED notPad

\* lines 261-269: the gap before the member is padded and the member is emitted
EmitMember ==
    /\ ppc = "members"
    /\ nmembers < MaxMembers
    /\ \E m \in Members :
          /\ offset <= m.offset
          /\ LET pads == GapPads(m.offset)
             IN  /\ npads' = npads + Len(pads)
                 /\ covered' = covered \cup PadBytes(pads) \cup Bytes(m.offset, m.width)
                 /\ overlap' = (overlap \/ Overlaps(pads, m.offset, m.width))
          /\ offset' = m.offset + m.width
          /\ nmembers' = nmembers + 1
          /\ emitted' = emitted + 1
    /\ UNCHANGED <<ppc, tobj_width, skipped, members_end>>
    /\ UNCHANGED notPad

\* line 254: the for loop is through with tobj.members
EndMembers ==
    /\ ppc = "members"
    /\ ppc' = "tail"
    /\ members_end' = offset
    /\ UNCHANGED <<tobj_width, offset, nmembers, emitted, skipped, npads, covered, overlap>>
    /\ UNCHANGED notPad

\* lines 272-278: the tail of the struct is padded up to tobj.width
TailPad ==
    /\ ppc = "tail"
    /\ offset < tobj_width
    /\ LET pads == GapPads(tobj_width)
       IN  /\ npads' = npads + Len(pads)
           /\ covered' = covered \cup PadBytes(pads)
           /\ overlap' = (overlap \/ Overlaps(pads, tobj_width, 0))
    /\ offset' = tobj_width
    /\ ppc' = "done"
    /\ UNCHANGED <<tobj_width, nmembers, emitted, skipped, members_end>>
    /\ UNCHANGED notPad

\* lines 272, 278: the cursor is at or past tobj.width, nothing is added
NoTailPad ==
    /\ ppc = "tail"
    /\ offset >= tobj_width
    /\ ppc' = "done"
    /\ UNCHANGED <<tobj_width, offset, nmembers, emitted, skipped, npads, covered,
                   overlap, members_end>>
    /\ UNCHANGED notPad

\* get_struct_items(tobj, tname, prefix) for a struct of some declared width; the
\* members are read one by one as the for loop reaches them
InitPad ==
    /\ OrderIdle
    /\ DepIdle
    /\ ExpIdle
    /\ FieldIdle
    /\ EmitIdle
    /\ ppc = "members"
    /\ tobj_width \in 0..MaxWidth
    /\ offset = 0
    /\ nmembers = 0
    /\ emitted = 0
    /\ skipped = 0
    /\ npads = 0
    /\ covered = {}
    /\ overlap = FALSE
    /\ members_end = 0

NextPad ==
    \/ SkipMember
    \/ EmitMember
    \/ EndMembers
    \/ TailPad
    \/ NoTailPad

SpecPad == InitPad /\ [][NextPad]_vars

\* ------------------------------------------------------------------ get_type_deps

\* a type tree is a sequence of nodes, the root first; a node has the class of the
\* type object, a name (tobj.name of a NamedTypeReferenceType, else the name of
\* registered_name, None where there is none) and the index of its parent;
\* the children of a node are the nodes that name it as parent, in index order.
\* IntegerType stands for the base types Bool, Char, Float, Integer, Void, WideChar.
Composite == {"StructureType", "ArrayType", "PointerType", "FunctionType"}
BaseKinds == {"IntegerType", "EnumerationType"}
Kinds == Composite \cup BaseKinds \cup {"NamedTypeReferenceType"}

\* the names the nodes of a type tree refer to
RefNames == {1, 2}

\* the class and the name of a node: a named reference has a name
Labels ==
    ((Kinds \ {"NamedTypeReferenceType"}) \X ({None} \cup RefNames))
    \cup ({"NamedTypeReferenceType"} \X RefNames)

\* the parents of the nodes 1..n of a tree: the root has none, the others an earlier node
ParentVecs(n) ==
    {pv \in [1..n -> 0..(n - 1)] : pv[1] = 0 /\ \A i \in 2..n : pv[i] >= 1 /\ pv[i] < i}

children(t, i) == {c \in 1..Len(t) : t[c].parent = i}

\* only a struct, array, pointer or function has children: an array its element
\* type, a pointer its target, a function its return value and parameters
TypeTree(t) ==
    \A i \in 1..Len(t) :
        /\ children(t, i) # {} => t[i].kind \in Composite
        /\ t[i].kind \in {"ArrayType", "PointerType"} => Cardinality(children(t, i)) = 1
        /\ t[i].kind = "FunctionType" => children(t, i) # {}

TreeOf(pv, lab) ==
    [i \in DOMAIN pv |-> [kind |-> lab[i][1], name |-> lab[i][2], parent |-> pv[i]]]

NoTypeDeps == [strong |-> {}, weak |-> {}]

\* lines 482, 490, 501
ThroughPointer(k) == k \in {"FunctionType", "PointerType"}

\* lines 482-485 and 490-493
AddDep(k, n, acc) ==
    IF ThroughPointer(k)
    THEN [acc EXCEPT !.weak = @ \cup {n}]
    ELSE [acc EXCEPT !.strong = @ \cup {n}]

\* lines 501-506 without the promotion of line 503
MergeChild_no_promote(k, child, acc) ==
    [strong |-> acc.strong \cup child.strong, weak |-> acc.weak \cup child.weak]

\* lines 501-506
MergeChild(k, child, acc) ==
    IF ThroughPointer(k)
    THEN [acc EXCEPT !.weak = @ \cup child.strong \cup child.weak]
    ELSE [strong |-> acc.strong \cup child.strong, weak |-> acc.weak \cup child.weak]

RECURSIVE get_type_deps(_, _)
RECURSIVE ChildrenLoop(_, _, _, _)

\* lines 478-506: the for loop over tobj.children, from index c on
ChildrenLoop(t, i, c, acc) ==
    IF c > Len(t) THEN acc
    ELSE IF t[c].parent # i THEN ChildrenLoop(t, i, c + 1, acc)
    ELSE IF t[c].kind = "NamedTypeReferenceType"
         THEN ChildrenLoop(t, i, c + 1, AddDep(t[i].kind, t[c].name, acc))
    ELSE IF t[c].name # None
         THEN ChildrenLoop(t, i, c + 1, AddDep(t[i].kind, t[c].name, acc))
    ELSE IF t[c].kind \in BaseKinds
         THEN ChildrenLoop(t, i, c + 1, acc)
    ELSE ChildrenLoop(t, i, c + 1, MergeChild(t[i].kind, get_type_deps(t, c), acc))

\* lines 468-517: get_type_deps of the node i of the tree t
get_type_deps(t, i) ==
    IF t[i].kind \in Composite THEN ChildrenLoop(t, i, 1, NoTypeDeps)
    ELSE IF t[i].kind = "NamedTypeReferenceType" THEN [strong |-> {t[i].name}, weak |-> {}]
    ELSE NoTypeDeps

\* lines 468-517
Classify ==
    /\ dpc = "call"
    /\ dpc' = "returned"
    /\ ret' = get_type_deps(tobj, 1)
    /\ UNCHANGED tobj
    /\ UNCHANGED notDep

\* get_type_deps(tobj, tname, gt) on a type tree
InitDeps ==
    /\ OrderIdle
    /\ PadIdle
    /\ ExpIdle
    /\ FieldIdle
    /\ EmitIdle
    /\ dpc = "call"
    /\ \E n \in 1..MaxNodes :
          \E pv \in ParentVecs(n) :
              \E lab \in [1..n -> Labels] :
                  /\ TypeTree(TreeOf(pv, lab))
                  /\ tobj = TreeOf(pv, lab)
    /\ ret = <<>>

NextDeps == Classify

SpecDeps == InitDeps /\ [][NextDeps]_vars

\* ------------------------------------------------------------------ export_types

RECURSIVE SortedSeq(_)
SortedSeq(S) ==
    IF S = {} THEN <<>>
    ELSE LET m == CHOOSE x \in S : \A y \in S : x <= y
         IN  <<m>> \o SortedSeq(S \ {m})

\* the orders in which a for loop may go through the set S
RECURSIVE Orders(_)
Orders(S) ==
    IF S = {} THEN {<<>>}
    ELSE UNION {{<<x>> \o o : o \in Orders(S \ {x})} : x \in S}

RECURSIVE WithRefs(_, _)
WithRefs(t, names) ==
    IF names = <<>> THEN t
    ELSE WithRefs(Append(t, [kind |-> "NamedTypeReferenceType", name |-> Head(names),
                             parent |-> 1]),
                  Tail(names))

RECURSIVE WithPointers(_, _)
WithPointers(t, names) ==
    IF names = <<>> THEN t
    ELSE WithPointers(t \o <<[kind |-> "PointerType", name |-> None, parent |-> 1],
                             [kind |-> "NamedTypeReferenceType", name |-> Head(names),
                              parent |-> Len(t) + 1]>>,
                      Tail(names))

\* a type of the database: the struct tname with a member of the named type s for
\* each s in S and a member pointing to the named type w for each w in W
StructOf(tname, S, W) ==
    WithPointers(WithRefs(<<[kind |-> "StructureType", name |-> tname, parent |-> 0]>>,
                          SortedSeq(S)),
                 SortedSeq(W))

\* the databases: the types of graph E, without those of the names in missing
DbOf(E, missing) ==
    [a \in Names |-> IF a \in missing THEN Missing
                     ELSE StructOf(a, DepsOf(E, "s")[a], DepsOf(E, "w")[a])]

\* the requested name lists: user input, one name per line
RECURSIVE SeqsUpTo(_, _)
SeqsUpTo(S, n) ==
    IF n = 0 THEN {<<>>}
    ELSE LET shorter == SeqsUpTo(S, n - 1)
         IN  shorter \cup {Append(q, x) : q \in shorter, x \in S}

Requests == SeqsUpTo(Names, MaxRequested) \ {<<>>}

\* d[k] = v
DictSet(d, k, v) == [x \in (DOMAIN d) \cup {k} |-> IF x = k THEN v ELSE d[x]]

\* the keys of a dict after d[k] = v, in insertion order
KeysSet(ks, k) == IF k \in Range(ks) THEN ks ELSE Append(ks, k)

\* lines 795-800 without the loop over weak_tdeps
Discovered_strong_only(tdeps, names) ==
    [strong |-> {d \in tdeps.strong : d \notin Range(names)}, weak |-> {}]

\* lines 795-800: the dependencies to append to typenames, first the strong ones
Discovered(tdeps, names) ==
    [strong |-> {d \in tdeps.strong : d \notin Range(names)},
     weak   |-> {d \in tdeps.weak : d \notin Range(names) /\ d \notin tdeps.strong}]

\* lines 803-804: the dependencies among the included types
Restricted(tdeps, names) ==
    [strong |-> tdeps.strong \cap Range(names), weak |-> tdeps.weak \cap Range(names)]

\* lines 788-807 of one iteration of the for loop over typenames
RecordType(tname) ==
    LET tdeps == get_type_deps(db[tname], 1)
        kept == IF do_recurse THEN tdeps ELSE Restricted(tdeps, typenames)
        new == Discovered(tdeps, typenames)
    IN  /\ e_types' = KeysSet(e_types, tname)
        /\ e_strong' = DictSet(e_strong, tname, kept.strong)
        /\ e_weak' = DictSet(e_weak, tname, kept.weak)
        /\ IF do_recurse
           THEN \E so \in Orders(new.strong), wo \in Orders(new.weak) :
                   typenames' = typenames \o so \o wo
           ELSE typenames' = typenames

\* lines 780-787: gt returns None, KeyError is raised
MissingType ==
    /\ epc = "build"
    /\ tidx <= Len(typenames)
    /\ db[typenames[tidx]] = Missing
    /\ epc' = "keyerror"
    /\ UNCHANGED <<db, do_recurse, typenames, tidx, e_types, e_strong, e_weak, requested>>
    /\ UNCHANGED <<filename, report, sink, prog_ok>>
    /\ UNCHANGED notExp

\* lines 779-814: one iteration, report_prog returns True
ProcessType ==
    /\ epc = "build"
    /\ tidx <= Len(typenames)
    /\ db[typenames[tidx]] # Missing
    /\ RecordType(typenames[tidx])
    /\ tidx' = tidx + 1
    /\ prog_ok' = TRUE
    /\ UNCHANGED <<epc, db, do_recurse, requested, filename, report, sink>>
    /\ UNCHANGED notExp

\* lines 779-814: one iteration, report_prog returns False and export_types returns
ProcessTypeCancel ==
    /\ epc = "build"
    /\ tidx <= Len(typenames)
    /\ db[typenames[tidx]] # Missing
    /\ RecordType(typenames[tidx])
    /\ epc' = "cancelled"
    /\ prog_ok' = FALSE
    /\ UNCHANGED <<db, do_recurse, tidx, requested, filename, report, sink>>
    /\ UNCHANGED notExp

\* lines 779, 816-820: the for loop is through with typenames, the graph is built
EndBuild ==
    /\ epc = "build"
    /\ tidx > Len(typenames)
    /\ epc' = "built"
    /\ UNCHANGED <<db, do_recurse, typenames, tidx, e_types, e_strong, e_weak, requested>>
    /\ UNCHANGED <<filename, report, sink, prog_ok>>
    /\ UNCHANGED notExp

\* line 820: get_order(types, strong_deps, weak_deps) is called with the graph built
GetOrderCall ==
    /\ epc = "built"
    /\ pc = "idle"
    /\ epc' = "order"
    /\ pc' = "build"
    /\ types' = [a \in Range(e_types) |-> db[a][1].kind = "StructureType"]
    /\ keys' = e_types
    /\ strong_deps' = e_strong
    /\ weak_deps' = e_weak
    /\ in_strong' = e_strong
    /\ in_weak' = e_weak
    /\ UNCHANGED <<rev_strong_deps, rev_weak_deps, predefd, order>>
    /\ UNCHANGED <<db, do_recurse, typenames, tidx, e_types, e_strong, e_weak, requested>>
    /\ UNCHANGED <<filename, report, sink, prog_ok>>
    /\ UNCHANGED <<padVars, depVars, fieldVars, emitVars>>

\* lines 837-839 with the return left out: a cancel request is not looked at
Checkpoint_ignored(ok) == "emit"

\* lines 837-839: where export_types is after report_prog returned ok
Checkpoint(ok) == IF ok THEN "emit" ELSE "cancelled"

\* lines 826-839: one iteration of the for loop over types_order; report_prog
\* returns ok
EmitEntry ==
    /\ epc \in {"order", "emit"}
    /\ pc = "returned"
    /\ Len(report) < Len(order)
    /\ report' = Append(report, order[Len(report) + 1])
    /\ \E ok \in BOOLEAN :
          /\ prog_ok' = ok
          /\ epc' = Checkpoint(ok)
    /\ UNCHANGED <<db, do_recurse, typenames, tidx, e_types, e_strong, e_weak, requested>>
    /\ UNCHANGED <<filename, sink>>
    /\ UNCHANGED notExp

\* lines 841-842: every entry is emitted, no file name was given
ShowReport ==
    /\ epc \in {"order", "emit"}
    /\ pc = "returned"
    /\ Len(report) = Len(order)
    /\ filename = ""
    /\ sink' = [to |-> "show_markdown_report", text |-> report]
    /\ epc' = "done"
    /\ UNCHANGED <<db, do_recurse, typenames, tidx, e_types, e_strong, e_weak, requested>>
    /\ UNCHANGED <<filename, report, prog_ok>>
    /\ UNCHANGED notExp

\* lines 843-845: every entry is emitted, the report is written to the file
WriteFile ==
    /\ epc \in {"order", "emit"}
    /\ pc = "returned"
    /\ Len(report) = Len(order)
    /\ filename # ""
    /\ sink' = [to |-> filename, text |-> report]
    /\ epc' = "done"
    /\ UNCHANGED <<db, do_recurse, typenames, tidx, e_types, e_strong, e_weak, requested>>
    /\ UNCHANGED <<filename, report, prog_ok>>
    /\ UNCHANGED notExp

\* export_types(report_prog) with the form input of export_some: some requested
\* names, some database, include dependents or not
InitExport ==
    /\ OrderIdle
    /\ PadIdle
    /\ DepIdle
    /\ FieldIdle
    /\ EmitIdle
    /\ epc = "build"
    /\ \E E \in SubsetsUpTo(Edges, MaxDbEdges), missing \in SUBSET Names :
          db = DbOf(E, missing)
    /\ do_recurse \in BOOLEAN
    /\ typenames \in Requests
    /\ requested = typenames
    /\ tidx = 1
    /\ e_types = <<>>
    /\ e_strong = <<>>
    /\ e_weak = <<>>
    /\ filename \in {"", "out.py"}
    /\ report = <<>>
    /\ sink = NoSink
    /\ prog_ok = TRUE

NextExport ==
    \/ MissingType
    \/ ProcessType
    \/ ProcessTypeCancel
    \/ EndBuild
    \/ GetOrderCall
    \/ BuildRev
    \/ ResolveFull
    \/ SelfCycle
    \/ ForwardDeclare
    \/ RaiseStrongCycle
    \/ Return
    \/ EmitEntry
    \/ ShowReport
    \/ WriteFile

SpecExport == InitExport /\ [][NextExport]_vars

\* ------------------------------------------------------------------ field names

\* the member names of the type database: "" is a member without a name
MemberNames == {"", "a", "b"}

\* the offsets and type widths of the members
MemberOffsets == {0, FieldStep}
MemberWidths == {0, FieldStep}

\* tobj.members with at most MaxFields members
FieldLists ==
    SeqsUpTo([name : MemberNames, offset : MemberOffsets, width : MemberWidths],
             MaxFields)

\* the type database gives members in the order of their offsets, the members of
\* a union at offset 0, and no two members the same name, unless they have none
MemberList(ms, un) ==
    /\ \A i, j \in 1..Len(ms) :
          /\ i < j => ms[i].offset <= ms[j].offset
          /\ (i # j /\ ms[i].name # "") => ms[i].name # ms[j].name
    /\ un => \A i \in 1..Len(ms) : ms[i].offset = 0

\* lines 171-173: the field name of a member: '__0x<offset>' for one without name
line_name(structmem) ==
    IF structmem.name = "" THEN <<"__0x", structmem.offset>> ELSE <<structmem.name>>

\* lines 228-245: the field name 'pad_<pt>_0x<offset>' of a padding entry
pad_name(pad) ==
    <<"pad_",
      IF pad[2] = 1 THEN "" ELSE IF pad[2] = 4 THEN "4" ELSE IF pad[2] = 8 THEN "8"
      ELSE "arr",
      pad[1]>>

pad_names(pads) == [k \in 1..Len(pads) |-> pad_name(pads[k])]

\* lines 253-278: the field names get_struct_items writes from member i on, the
\* cursor at off
RECURSIVE struct_item_names(_, _)
struct_item_names(i, off) ==
    IF i > Len(members)
    THEN IF off < width THEN pad_names(struct_padding(off, width - off)) ELSE <<>>
    ELSE LET m == members[i]
         IN  IF off > m.offset THEN struct_item_names(i + 1, off)
             ELSE (IF off < m.offset
                   THEN pad_names(struct_padding(off, m.offset - off))
                   ELSE <<>>)
                  \o <<line_name(m)>>
                  \o struct_item_names(i + 1, m.offset + m.width)

\* lines 200-205: maxlen, the largest type width of the members
RECURSIVE maxlen(_)
maxlen(i) ==
    IF i > Len(members) THEN 0
    ELSE IF members[i].width > maxlen(i + 1) THEN members[i].width ELSE maxlen(i + 1)

\* lines 198-214: the field names get_union_items writes
union_item_names ==
    [i \in 1..Len(members) |-> line_name(members[i])]
    \o (IF maxlen(1) < width THEN <<<<"_pad_to_", width>>>> ELSE <<>>)

\* get_struct_items(tobj, tname, prefix)
StructItems ==
    /\ fpc = "call"
    /\ ~is_union
    /\ items' = struct_item_names(1, 0)
    /\ fpc' = "done"
    /\ UNCHANGED <<is_union, width, members>>
    /\ UNCHANGED notField

\* get_union_items(tobj, tname, prefix)
UnionItems ==
    /\ fpc = "call"
    /\ is_union
    /\ items' = union_item_names
    /\ fpc' = "done"
    /\ UNCHANGED <<is_union, width, members>>
    /\ UNCHANGED notField

\* the field list of a struct or union of the type database
InitFields ==
    /\ OrderIdle
    /\ PadIdle
    /\ DepIdle
    /\ ExpIdle
    /\ EmitIdle
    /\ fpc = "call"
    /\ is_union \in BOOLEAN
    /\ width \in {0, FieldStep, 2 * FieldStep}
    /\ members \in FieldLists
    /\ MemberList(members, is_union)
    /\ items = <<>>

NextFields ==
    \/ StructItems
    \/ UnionItems

SpecFields == InitFields /\ [][NextFields]_vars

\* ------------------------------------------------------------------ definitions

\* A type of the emitter is a tree of nodes [kind, name, parent, union, offset]:
\* name is the registered name of an enum or the name of a named reference, union
\* tells a union from a struct, offset is the offset of a member in its struct. The
\* members of a struct, the element of an array, the target of a pointer, the
\* return value and the parameters of a function are the children in index order.
\* A name is a sequence of parts <<text, numbers>>: the type name, then one part
\* for each '__n<path>', '__u<nth>' or '__0x<offset>' appended to it.

EmitLabels ==
    [kind : {"StructureType"}, name : {None}, layout : {"struct", "overlap", "union"}]
    \cup [kind : {"EnumerationType"}, name : {None, 1}, layout : {""}]
    \cup [kind : {"PointerType", "ArrayType", "FunctionType", "IntegerType"},
          name : {None}, layout : {""}]
    \cup [kind : {"NamedTypeReferenceType"}, name : {1}, layout : {""}]

\* the number of children of node p with an index below c
Position(pv, c) == Cardinality({x \in 1..(c - 1) : pv[x] = pv[c]})

\* the members of a struct follow each other, FieldStep bytes each, or all lie at
\* offset 0, as those of a union do
EmitTreeOf(pv, lab) ==
    [c \in DOMAIN pv |->
        [kind |-> lab[c].kind, name |-> lab[c].name, parent |-> pv[c],
         union |-> lab[c].layout = "union",
         offset |-> IF pv[c] # 0 /\ lab[pv[c]].layout = "struct"
                    THEN Position(pv, c) * FieldStep ELSE 0]]

\* m.type.width of a member
type_width(t, c) == FieldStep

kids(t, i) == SortedSeq(children(t, i))

Anonymous(k) == k \in {"StructureType", "EnumerationType"}
Nested(k) == k \in {"ArrayType", "FunctionType", "PointerType"}

\* nth as make_anon_name gets it: an int i, or a str '<i>_<j>_...'
IntNth(i) == [str |-> FALSE, val |-> <<i>>]
StrNth(path) == [str |-> TRUE, val |-> path]

\* lines 122-130: prefix + name
make_type_name(name) == <<<<"prefix", <<>>>>>> \o name

\* lines 132-141
make_anon_name(off, nth, parent, parent_union) ==
    IF nth.str THEN Append(parent, <<"__n", nth.val>>)
    ELSE IF parent_union THEN Append(parent, <<"__u", nth.val>>)
    ELSE Append(parent, <<"__0x", <<off>>>>)

\* the name of the type database with number n
NameOf(n) == <<<<"name", <<n>>>>>>

\* get_ctypes_equiv called without declared
NotGiven == [given |-> FALSE, names |-> {}]

\* lines 313-370: the anonymous type names in the expression get_ctypes_equiv
\* returns, each with the node it stands for; a named reference that is not
\* declared resolves to a type without anonymous parts
RECURSIVE get_ctypes_equiv(_, _, _, _, _)
get_ctypes_equiv(t, c, parent, nth, decl) ==
    LET k == t[c].kind
        sub(j) == get_ctypes_equiv(t, kids(t, c)[j], parent,
                                   StrNth(Append(nth.val, j - 1)), decl)
    IN  IF k = "ArrayType" THEN sub(1)
        ELSE IF k = "PointerType"
        THEN IF /\ decl.given
                /\ t[kids(t, c)[1]].kind = "NamedTypeReferenceType"
                /\ NameOf(t[kids(t, c)[1]].name) \notin decl.names
             THEN {}
             ELSE sub(1)
        ELSE IF k = "FunctionType"
        THEN UNION {sub(j) : j \in 1..Len(kids(t, c))}
        ELSE IF Anonymous(k)
        THEN {[name |-> make_type_name(make_anon_name(0, StrNth(nth.val), parent, FALSE)),
               node |-> c]}
        ELSE {}

\* lines 181-182 left out: an anonymous struct member goes to get_ctypes_equiv
structunion_line_no_struct(t, m, i, parent, parent_union) ==
    LET k == t[m].kind
        own == {[name |-> make_type_name(make_anon_name(t[m].offset, IntNth(i), parent,
                                                        parent_union)),
                 node |-> m]}
    IN  [member |-> m,
         anon |-> IF k = "NamedTypeReferenceType" THEN {}
                  ELSE IF k = "EnumerationType"
                  THEN IF t[m].name = None THEN own ELSE {}
                  ELSE get_ctypes_equiv(t, m, parent, IntNth(i), NotGiven)]

\* lines 170-196: the line of member m, the i-th of its parent, with the anonymous
\* type names in its equiv
structunion_line(t, m, i, parent, parent_union) ==
    LET k == t[m].kind
        own == {[name |-> make_type_name(make_anon_name(t[m].offset, IntNth(i), parent,
                                                        parent_union)),
                 node |-> m]}
    IN  [member |-> m,
         anon |-> IF k = "NamedTypeReferenceType" THEN {}
                  ELSE IF k = "StructureType" THEN own
                  ELSE IF k = "EnumerationType"
                  THEN IF t[m].name = None THEN own ELSE {}
                  ELSE get_ctypes_equiv(t, m, parent, IntNth(i), NotGiven)]

\* a line of padding: it names no type of the export
pad_lines(pads) == [x \in 1..Len(pads) |-> [member |-> 0, anon |-> {}]]

\* lines 198-214
get_union_items(t, p, tname) ==
    [i \in 1..Len(kids(t, p)) |-> structunion_line(t, kids(t, p)[i], i - 1, tname, TRUE)]
    \o (IF kids(t, p) = <<>> THEN pad_lines(<<<<0, type_width(t, p)>>>>) ELSE <<>>)

\* lines 250-278, from the i-th member on, the cursor at off
RECURSIVE get_struct_items(_, _, _, _, _)
get_struct_items(t, p, tname, i, off) ==
    IF i > Len(kids(t, p))
    THEN IF off < type_width(t, p)
         THEN pad_lines(struct_padding(off, type_width(t, p) - off))
         ELSE <<>>
    ELSE LET m == kids(t, p)[i]
         IN  IF off > t[m].offset THEN get_struct_items(t, p, tname, i + 1, off)
             ELSE (IF off < t[m].offset
                   THEN pad_lines(struct_padding(off, t[m].offset - off))
                   ELSE <<>>)
                  \o <<structunion_line(t, m, i - 1, tname, FALSE)>>
                  \o get_struct_items(t, p, tname, i + 1, t[m].offset + type_width(t, m))

\* the rec_list entries of the children of c, line 156 and lines 166-167
RecEntries(t, c, path) ==
    [j \in 1..Len(kids(t, c)) |-> <<Append(path, j - 1), kids(t, c)[j]>>]

\* lines 415-440: what full_definition writes: the definitions of the anonymous
\* types first, then the definition of typename; a definition is its made name,
\* its form, the node it defines and its lines
RECURSIVE full_definition(_, _, _)

\* lines 158-167: the while loop over rec_list
RECURSIVE rec_loop(_, _, _)
rec_loop(t, rec_list, tname) ==
    IF rec_list = <<>> THEN <<>>
    ELSE LET i == Head(rec_list)[1]
             c == Head(rec_list)[2]
         IN  IF Anonymous(t[c].kind)
             THEN full_definition(t, c, make_anon_name(0, StrNth(i), tname, FALSE))
                  \o rec_loop(t, Tail(rec_list), tname)
             ELSE IF Nested(t[c].kind)
             THEN rec_loop(t, Tail(rec_list) \o RecEntries(t, c, i), tname)
             ELSE rec_loop(t, Tail(rec_list), tname)

\* lines 143-168, from the i-th member on
RECURSIVE get_structunion_preitems(_, _, _, _)
get_structunion_preitems(t, p, tname, i) ==
    IF i > Len(kids(t, p)) THEN <<>>
    ELSE LET m == kids(t, p)[i]
         IN  (IF Anonymous(t[m].kind)
              THEN full_definition(t, m, make_anon_name(t[m].offset, IntNth(i - 1), tname,
                                                        t[p].union))
              ELSE IF Nested(t[m].kind)
              THEN rec_loop(t, RecEntries(t, m, <<i - 1>>), tname)
              ELSE <<>>)
             \o get_structunion_preitems(t, p, tname, i + 1)

\* the items of a struct or union
structunion_items(t, p, tname) ==
    IF t[p].union THEN get_union_items(t, p, tname)
    ELSE get_struct_items(t, p, tname, 1, 0)

\* lines 437-439: an alias is written as its equiv alone
alias_definition(t, c, typename) ==
    <<[def |-> make_type_name(typename), form |-> "alias", node |-> c,
       lines |-> <<[member |-> c,
                    anon |-> get_ctypes_equiv(t, c, typename, IntNth(0), NotGiven)]>>]>>

full_definition(t, c, typename) ==
    IF t[c].kind = "StructureType"
    THEN get_structunion_preitems(t, c, typename, 1)
         \o <<[def |-> make_type_name(typename), form |-> "class", node |-> c,
               lines |-> structunion_items(t, c, typename)]>>
    ELSE IF t[c].kind = "EnumerationType"
    THEN <<[def |-> make_type_name(typename), form |-> "enum", node |-> c, lines |-> <<>>]>>
    ELSE alias_definition(t, c, typename)

\* lines 390-412; get_order gives no PART entry for an enum
part_definition(t, c, typename) ==
    IF t[c].kind = "StructureType"
    THEN get_structunion_preitems(t, c, typename, 1)
         \o <<[def |-> make_type_name(typename), form |-> "fields", node |-> c,
               lines |-> structunion_items(t, c, typename)]>>
    ELSE full_definition(t, c, typename)

\* lines 372-388: the real definition of an alias goes into a comment
declaration(t, c, typename, decl) ==
    IF t[c].kind = "StructureType"
    THEN <<[def |-> make_type_name(typename), form |-> "class_fwd", node |-> c,
            lines |-> <<>>]>>
    ELSE IF t[c].kind = "EnumerationType"
    THEN full_definition(t, c, typename)
    ELSE <<[def |-> make_type_name(typename), form |-> "alias_fwd", node |-> c,
            lines |-> <<[member |-> c,
                         anon |-> get_ctypes_equiv(t, c, typename, IntNth(0),
                                                   [given |-> TRUE, names |-> decl])]>>]>>

\* only a struct, array, pointer or function has children: an array its element
\* type, a pointer its target, a function at least its return value
EmitTree(t) ==
    \A i \in 1..Len(t) :
        /\ children(t, i) # {} => t[i].kind \in Composite
        /\ t[i].kind \in {"ArrayType", "PointerType"} => Cardinality(children(t, i)) = 1
        /\ t[i].kind = "FunctionType" => children(t, i) # {}

\* the entries get_order gives for one name: FULL, or a forward declaration and
\* PART; an enum has FULL alone
LineKinds(k) ==
    IF k = "EnumerationType" THEN {<<FULL>>}
    ELSE {<<FULL>>, <<FwdKind(k = "StructureType"), PART>>}

\* the name of the type that is written
typename == NameOf(NumNames)

\* lines 826-835, linekind FULL
EmitFull ==
    /\ wpc = "emit"
    /\ linekinds # <<>>
    /\ Head(linekinds) = FULL
    /\ out' = out \o full_definition(typeobj, 1, typename)
    /\ declared' = declared \cup {typename}
    /\ linekinds' = Tail(linekinds)
    /\ UNCHANGED <<wpc, typeobj>>
    /\ UNCHANGED notEmit

\* lines 826-835, linekind PART
EmitPart ==
    /\ wpc = "emit"
    /\ linekinds # <<>>
    /\ Head(linekinds) = PART
    /\ out' = out \o part_definition(typeobj, 1, typename)
    /\ declared' = declared \cup {typename}
    /\ linekinds' = Tail(linekinds)
    /\ UNCHANGED <<wpc, typeobj>>
    /\ UNCHANGED notEmit

\* lines 826-835, linekind FWD_STRUCT or FWD_OTHER
EmitDeclaration ==
    /\ wpc = "emit"
    /\ linekinds # <<>>
    /\ Head(linekinds) \in {FWD_STRUCT, FWD_OTHER}
    /\ out' = out \o declaration(typeobj, 1, typename, declared)
    /\ declared' = declared \cup {typename}
    /\ linekinds' = Tail(linekinds)
    /\ UNCHANGED <<wpc, typeobj>>
    /\ UNCHANGED notEmit

\* the for loop over the entries of types_order is through with those of the name
EmitDone ==
    /\ wpc = "emit"
    /\ linekinds = <<>>
    /\ wpc' = "done"
    /\ UNCHANGED <<typeobj, linekinds, declared, out>>
    /\ UNCHANGED notEmit

\* the entries of one type of the database are written; the names it refers to
\* are declared or not
InitEmit ==
    /\ OrderIdle
    /\ PadIdle
    /\ DepIdle
    /\ ExpIdle
    /\ FieldIdle
    /\ wpc = "emit"
    /\ \E n \in 1..MaxEmitNodes :
          \E pv \in ParentVecs(n) :
              \E lab \in [1..n -> EmitLabels] :
                  /\ EmitTree(EmitTreeOf(pv, lab))
                  /\ typeobj = EmitTreeOf(pv, lab)
    /\ linekinds \in LineKinds(typeobj[1].kind)
    /\ declared \in SUBSET {NameOf(1)}
    /\ out = <<>>

NextEmit ==
    \/ EmitFull
    \/ EmitPart
    \/ EmitDeclaration
    \/ EmitDone

SpecEmit == InitEmit /\ [][NextEmit]_vars

\* ------------------------------------------------------------------ properties

RECURSIVE Grow(_, _)
Grow(deps, S) ==
    LET T == S \cup UNION {deps[x] : x \in S}
    IN  IF T = S THEN S ELSE Grow(deps, T)

\* the names reachable from a along one or more edges of deps
ReachFrom(deps, a) == Grow(deps, deps[a])

Cyclic(deps) == \E a \in DOMAIN deps : a \in ReachFrom(deps, a)

BothDeps == [a \in Names |-> in_strong[a] \cup in_weak[a]]

Defs == {FULL, PART}
Fwds == {FWD_STRUCT, FWD_OTHER}

\* the indexes of the entries of order for tname with a kind in kinds
Idx(tname, kinds) == {i \in 1..Len(order) : order[i][1] = tname /\ order[i][2] \in kinds}

WeakEdgeCount == Cardinality({<<a, b>> \in (DOMAIN weak_deps) \X Names : b \in weak_deps[a]})

\* C1: in a returned order, every strong dependency of a name with a FULL or PART
\* entry has its own FULL or PART entry at a smaller index.
C1_TopologicalValidity ==
    pc = "returned" =>
        \A i \in 1..Len(order) :
            order[i][2] \in Defs =>
                \A S \in in_strong[order[i][1]] :
                    \E j \in 1..(i - 1) : order[j][1] = S /\ order[j][2] \in Defs

\* an order was returned in which a name with a strong dependency is defined
C1_Witness ==
    /\ pc = "returned"
    /\ \E i \in 1..Len(order) : order[i][2] \in Defs /\ in_strong[order[i][1]] # {}

\* C2: in a returned order every name has exactly one FULL or PART entry, at most
\* one FWD_* entry, every FWD_* entry is followed by exactly one PART entry of its
\* name, and a name with a FULL entry has neither a FWD_* nor a PART entry.
C2_Completion ==
    pc = "returned" =>
        \A n \in Names :
            /\ Cardinality(Idx(n, Defs)) = 1
            /\ Cardinality(Idx(n, Fwds)) <= 1
            /\ \A i \in Idx(n, Fwds) :
                  /\ Cardinality(Idx(n, {PART})) = 1
                  /\ \A j \in Idx(n, {PART}) : j > i
            /\ Idx(n, {FULL}) # {} => Idx(n, Fwds \cup {PART}) = {}

\* an order was returned that forward declares one name and fully defines another
C2_Witness ==
    /\ pc = "returned"
    /\ \E n, m \in Names : Idx(n, Fwds) # {} /\ Idx(m, {FULL}) # {}

\* C3: every iteration of the while loop removes a name from the graph or adds a
\* new name to predefd, and the loop ends: get_order returns or raises.
C3_Termination ==
    /\ [][(pc = "loop" /\ pc' = "loop") =>
            \/ Len(keys') < Len(keys)
            \/ /\ Len(predefd') = Len(predefd) + 1
               /\ predefd'[Len(predefd')] \notin Range(predefd)]_vars
    /\ <>(pc \in {"returned", "raised"})

\* get_order returned on a graph whose only edges are a weak cycle between two names
C3_Witness ==
    /\ pc = "returned"
    /\ \E a, b \in Names : a # b /\ b \in in_weak[a] /\ a \in in_weak[b]
    /\ \E n \in Names : Idx(n, Fwds) # {}

\* C4: on a graph whose strong edges have a cycle, get_order raises the strong
\* cycle error and never returns an order.
C4_FatalOnStrongCycle ==
    /\ [](Cyclic(in_strong) => pc # "returned")
    /\ (Cyclic(in_strong) ~> pc = "raised")

\* the error was raised on two names that strongly depend on each other
C4_Witness ==
    /\ pc = "raised"
    /\ \E a, b \in Names : a # b /\ b \in in_strong[a] /\ a \in in_strong[b]

\* C5: on a closed graph with acyclic strong edges get_order never raises, and the
\* order it returns holds every input name.
C5_RaisesOnlyOnStrongCycle ==
    ~Cyclic(in_strong) =>
        /\ pc \notin {"raised", "keyerror"}
        /\ pc = "returned" => \A n \in Names : Idx(n, Defs) # {}

\* an order was returned for a graph with a cycle of a strong and a weak edge
C5_Witness ==
    /\ pc = "returned"
    /\ ~Cyclic(in_strong)
    /\ \E a, b \in Names : a # b /\ b \in in_strong[a] /\ a \in in_weak[b]

\* C6: every forced forward declaration (an iteration that adds a name to predefd)
\* strictly reduces the number of remaining weak edges: the declared name is the
\* target of a remaining weak dependency. Stated on the graphs get_order accepts,
\* those without a strong cycle.
C6_ForwardDeclareNecessity ==
    [][(pc = "loop" /\ ~Cyclic(in_strong) /\ Len(predefd') = Len(predefd) + 1) =>
            /\ WeakEdgeCount' < WeakEdgeCount
            /\ rev_weak_deps[predefd'[Len(predefd')]] # {}]_vars

\* C7: when the strong and weak edges together are acyclic, the returned order has
\* one entry per name, each FULL and after the entries of all its dependencies,
\* and get_order does not raise.
C7_PureOrder ==
    ~Cyclic(BothDeps) =>
        /\ pc \notin {"raised", "keyerror"}
        /\ \A i \in 1..Len(order) : order[i][2] = FULL
        /\ pc = "returned" =>
              /\ Len(order) = NumNames
              /\ \A i \in 1..Len(order) :
                    \A d \in BothDeps[order[i][1]] :
                        \E j \in 1..(i - 1) : order[j][1] = d

\* an order was returned for an acyclic graph with a strong and a weak edge
C7_Witness ==
    /\ pc = "returned"
    /\ ~Cyclic(BothDeps)
    /\ \E a \in Names : in_weak[a] # {}
    /\ \E a \in Names : in_strong[a] # {}

RECURSIVE Ancestors(_, _)
\* the nodes on the path from the root to the parent of node c
Ancestors(t, c) ==
    IF t[c].parent = 0 THEN {} ELSE {t[c].parent} \cup Ancestors(t, t[c].parent)

\* a named reference, or a type with a registered name
NamedNode(t, c) == t[c].kind = "NamedTypeReferenceType" \/ t[c].name # None

\* a named child that is reached from the root through unnamed nodes only
NamedChild(t, c) ==
    /\ c # 1
    /\ NamedNode(t, c)
    /\ \A a \in Ancestors(t, c) \ {1} : ~NamedNode(t, a)

\* C9: a name is in the weak set iff some named child of that name is reached
\* through unnamed nodes on a path that crosses a pointer or a function, and in the
\* strong set iff some such path crosses structs and arrays only (the path of a
\* root that is a named reference crosses nothing); nothing below a named child
\* and no unnamed scalar or enum adds a name.
C9_ClassificationStrength ==
    dpc = "returned" =>
        \A N \in RefNames :
            /\ N \in ret.weak <=>
                  \E c \in 1..Len(tobj) :
                      /\ NamedChild(tobj, c)
                      /\ tobj[c].name = N
                      /\ \E a \in Ancestors(tobj, c) :
                            tobj[a].kind \in {"PointerType", "FunctionType"}
            /\ N \in ret.strong <=>
                  \/ tobj[1].kind = "NamedTypeReferenceType" /\ tobj[1].name = N
                  \/ \E c \in 1..Len(tobj) :
                        /\ NamedChild(tobj, c)
                        /\ tobj[c].name = N
                        /\ \A a \in Ancestors(tobj, c) :
                              tobj[a].kind \in {"StructureType", "ArrayType"}

\* a pointer to an unnamed struct with a named member was classified
C9_Witness ==
    /\ dpc = "returned"
    /\ Len(tobj) = 3
    /\ tobj[1].kind = "PointerType"
    /\ tobj[2].kind = "StructureType" /\ tobj[2].name = None /\ tobj[2].parent = 1
    /\ tobj[3].parent = 2 /\ tobj[3].name # None
    /\ ret.weak # {}

\* the names classification returns for the type of name a in the database
Classified(a) ==
    IF db[a] = Missing THEN {}
    ELSE get_type_deps(db[a], 1).strong \cup get_type_deps(db[a], 1).weak

\* the requested names and all they reach along the classified dependencies
RequestedClosure == Grow([a \in Names |-> Classified(a)], Range(requested))

Mirrored(deps, rev) ==
    \A a \in DOMAIN deps, b \in Names :
        b \in deps[a] <=> (b \in DOMAIN rev /\ a \in rev[b])

\* C13: once the reverse maps are built and after every update_deps call of
\* get_order, the four maps have the same keys, each reverse map mirrors its forward
\* map, no set holds a removed name, and update_deps never fails on a missing key
\* or element.
C13_MapConsistency ==
    /\ pc # "keyerror"
    /\ pc \in {"loop", "returned", "raised"} =>
          /\ DOMAIN strong_deps = Range(keys)
          /\ DOMAIN weak_deps = Range(keys)
          /\ DOMAIN rev_strong_deps = Range(keys)
          /\ DOMAIN rev_weak_deps = Range(keys)
          /\ Mirrored(strong_deps, rev_strong_deps)
          /\ Mirrored(weak_deps, rev_weak_deps)
          /\ \A a \in Range(keys) :
                (strong_deps[a] \cup weak_deps[a] \cup rev_strong_deps[a]
                    \cup rev_weak_deps[a]) \subseteq Range(keys)

\* a name was forward declared, another was defined and removed, and the name that
\* remains still has a dependency
C13_Witness ==
    /\ pc = "loop"
    /\ predefd # <<>>
    /\ Len(keys) < NumNames
    /\ \E a \in Range(keys) : strong_deps[a] \cup weak_deps[a] # {}

\* C14: in a returned order, every name in the initial weak dependencies of a name
\* T has an entry before the FULL or PART entry of T; for T itself that entry is a
\* forward declaration of T.
C14_DeclaredBeforeReferenced ==
    pc = "returned" =>
        \A i \in 1..Len(order) :
            order[i][2] \in Defs =>
                \A W \in in_weak[order[i][1]] :
                    \E j \in 1..(i - 1) :
                        /\ order[j][1] = W
                        /\ W = order[i][1] => order[j][2] \in Fwds

\* an order was returned for a name that points to itself and to another name
C14_Witness ==
    /\ pc = "returned"
    /\ \E T \in Names : T \in in_weak[T] /\ in_weak[T] \ {T} # {}

\* a name without initial dependencies, as every enum is
NoInitialDeps(a) == in_strong[a] = {} /\ in_weak[a] = {}

\* C15: the name of a forced forward declaration has a dependency left; a name
\* without dependencies, as an enum is (get_type_deps returns two empty sets for
\* it), never gets a FWD_* or PART entry and gets one FULL entry, so part_definition
\* never raises on an enum.
C15_NoForwardWithoutDeps ==
    /\ \A n \in {None} \cup RefNames :
          get_type_deps(<<[kind |-> "EnumerationType", name |-> n, parent |-> 0]>>, 1)
              = NoTypeDeps
    /\ [][predefd' # predefd =>
             strong_deps[predefd'[Len(predefd')]] \cup weak_deps[predefd'[Len(predefd')]]
                 # {}]_vars
    /\ [](\A a \in Names :
             (pc # "idle" /\ NoInitialDeps(a)) =>
                 /\ Idx(a, Fwds \cup {PART}) = {}
                 /\ Cardinality(Idx(a, {FULL})) <= 1
                 /\ pc = "returned" => Cardinality(Idx(a, {FULL})) = 1)

\* a name was forward declared in a graph where a type that is no structure and has
\* no dependencies got its FULL entry
C15_Witness ==
    /\ predefd # <<>>
    /\ \E a \in Names : ~types[a] /\ NoInitialDeps(a) /\ Idx(a, {FULL}) # {}

\* C12: once report_prog has returned False, at a checkpoint of the graph
\* construction or of the emission, export_types has ended and nothing is shown or
\* written; what is shown or written is the report of every entry of the order,
\* emitted without a cancel request.
C12_NoPartialOutput ==
    /\ ~prog_ok => epc = "cancelled" /\ sink = NoSink
    /\ sink # NoSink =>
          /\ prog_ok
          /\ epc = "done"
          /\ pc = "returned"
          /\ report = order
          /\ sink.text = order

\* the export was cancelled at the checkpoint after the last of several entries
C12_Witness ==
    /\ epc = "cancelled"
    /\ ~prog_ok
    /\ Len(report) > 1
    /\ report = order
    /\ sink = NoSink

\* C16: the field names of the field list written for one struct or union are
\* pairwise distinct, the names '__0x<offset>' made for members without name and
\* the names of the padding entries included.
C16_DistinctFieldNames ==
    fpc = "done" => \A i, j \in 1..Len(items) : i # j => items[i] # items[j]

\* the unnamed structs and enums reached from node c itself or through any
\* nesting of pointers, arrays and functions
RECURSIVE Inline(_, _)
Inline(t, c) ==
    IF Anonymous(t[c].kind) THEN (IF t[c].name = None THEN {c} ELSE {})
    ELSE IF Nested(t[c].kind) THEN UNION {Inline(t, x) : x \in children(t, c)}
    ELSE {}

\* the definitions written before the i-th that define node c
DefinedBefore(i, c) ==
    {j \in 1..(i - 1) : out[j].node = c /\ out[j].form \in {"class", "enum"}}

\* C11: every unnamed struct or enum reached from a member of a struct or union,
\* directly or through pointers, arrays and functions, is defined before the field
\* list of the parent, under the very name the field line of the member gives it;
\* and a field line names no anonymous type that is not defined before.
C11_AnonymousNamesAgree ==
    \A i \in 1..Len(out) :
        out[i].form \in {"class", "fields"} =>
            /\ \A m \in children(typeobj, out[i].node) :
                  \A c \in Inline(typeobj, m) :
                      /\ DefinedBefore(i, c) # {}
                      /\ \A j \in DefinedBefore(i, c), k \in 1..Len(out[i].lines) :
                            out[i].lines[k].member = m =>
                                \E r \in out[i].lines[k].anon :
                                    r.node = c /\ r.name = out[j].def
            /\ \A k \in 1..Len(out[i].lines) :
                  \A r \in out[i].lines[k].anon :
                      \E j \in DefinedBefore(i, r.node) : out[j].def = r.name

\* a struct was written with a member that is a pointer, array or function, whose
\* field line names an unnamed struct or enum below it
C11_Witness ==
    /\ wpc = "done"
    /\ \E i \in 1..Len(out) :
          /\ out[i].form \in {"class", "fields"}
          /\ \E k \in 1..Len(out[i].lines) :
                \E r \in out[i].lines[k].anon :
                    /\ Nested(typeobj[out[i].lines[k].member].kind)
                    /\ r.node \in Inline(typeobj, out[i].lines[k].member)

\* C17: every anonymous type name in the expression written for a top-level alias
\* (a pointer, array or function over an unnamed struct or enum) has a definition
\* written before it.
C17_AliasAnonymousDefined ==
    \A i \in 1..Len(out) :
        out[i].form \in {"alias", "alias_fwd"} =>
            \A k \in 1..Len(out[i].lines) :
                \A r \in out[i].lines[k].anon :
                    \E j \in 1..(i - 1) : out[j].def = r.name

====
